---- MODULE Spec2Model ----
(***************************************************************************)
(* The call dispatch engine of ai-call-orchestrator: the calls table, the  *)
(* create request, the dispatch loop (gate, claim, slot check, detached    *)
(* processCall), the retry scheduler and the webhook correlator.           *)
(*                                                                         *)
(* Time is counted in whole seconds (now); Date.now() is now * 1000 ms.    *)
(* Rows of the calls table are kept in insertion order, which is their     *)
(* createdAt order; a row's id is its position. Every UPDATE of a row      *)
(* stamps its updatedAt (the entity's @UpdateDateColumn, init.sql's        *)
(* trigger).                                                               *)
(***************************************************************************)
EXTENDS Integers, Sequences, FiniteSets, TLC

\* ---------------------------------------------------------------- bounds
\* Rows ever created: in Spec (the clock stands still), in SpecTimed (it
\* runs) and in SpecCapacity.
MaxCalls == 2
MaxCallsTimed == 1
MaxCallsCapacity == 3
\* Rows ever created in SpecApi, SpecUpdate, SpecFaulty and SpecShutdown.
MaxCallsApi == 2
MaxCallsUpdate == 1
MaxCallsFaulty == 1
MaxCallsShutdown == 1
\* Update requests under way at once.
MaxUpdating == 1
MaxCallsSingleLoop == 2
MaxCallsProvider == 1
MaxCallsSweep == 2
MaxCallsQueue == 1
MaxTimeQueue == 3
MaxQueueLength == 3
MaxTimeLimiter == 4
LimiterMaxRequests == 2
LimiterWindowMs == 2000
\* The last second of the clock.
MaxTime == 1

\* ------------------------------------------------------ program constants
MaxRetryAttempts == 3

Destinations == {"+10000000001", "+10000000002"}
ScriptIds == {"s1"}
\* The dispatcher instances sharing the store (one processCallQueue each).
Workers == {"w1", "w2"}
\* The values of MAX_CONCURRENT_CALLS the instances are started with.
MaxConcurrentChoices == {1, 2}
Times == 0..MaxTime

PENDING == "PENDING"
IN_PROGRESS == "IN_PROGRESS"
COMPLETED == "COMPLETED"
FAILED == "FAILED"
EXPIRED == "EXPIRED"
CallStatus == {PENDING, IN_PROGRESS, COMPLETED, FAILED, EXPIRED}
Terminal == {COMPLETED, FAILED, EXPIRED}

\* Absent values of the nullable columns.
NoTime == -1
NoExt == 0
NoError == "null"

VARIABLES
    calls,          \* the calls table: Seq of CallEntity rows
    now,            \* the clock, in seconds
    maxConcurrentCalls, \* ConcurrencyManager.maxConcurrentCalls (MAX_CONCURRENT_CALLS)
    creating,       \* create requests between their uniqueness check and their insert
    pc,             \* each dispatch loop's position in processCallQueue
    held,           \* each dispatch loop's pendingCall / callEntity
    tasks,          \* detached processCall invocations in flight
    queue,          \* QueueService.queue of the dispatcher's CallService
    lastSig,        \* history: the last completion signal applied to a row, and
                    \* whether that delivery repeated the one applied before it
    updating,       \* update requests between their findById and their updateById
    resp,           \* the last HTTP response a controller sent
    proc,           \* the dispatcher process: running, closing (signal received), exited
    requestCounts   \* the rate limiter's map: client address -> {count, resetTime},
                    \* and (history) the times of the requests it let through

\* The request surface and the process, which the engine's own steps leave alone.
surface == <<updating, resp, proc, requestCounts>>

vars == <<calls, now, maxConcurrentCalls, creating, pc, held, tasks, queue, lastSig,
          updating, resp, proc, requestCounts>>

\* ------------------------------------------------------------- the store

Ids == 1..Len(calls)

\* CallRepository.create with the entity's column defaults.
NewCall(to, scriptId) ==
    [to |-> to, scriptId |-> scriptId, status |-> PENDING, attempts |-> 0,
     lastError |-> NoError, startedAt |-> NoTime, endedAt |-> NoTime,
     createdAt |-> now, updatedAt |-> now, externalCallId |-> NoExt]

\* update_calls_updated_at / @UpdateDateColumn: an UPDATE stamps the row.
Touch(row) == [row EXCEPT !.updatedAt = now]

\* CallService.entityToCall: the record as the service hands it out (its id
\* and createdAt are the row's position).
entityToCall(row) ==
    [to |-> row.to, scriptId |-> row.scriptId, status |-> row.status,
     attempts |-> row.attempts, lastError |-> row.lastError,
     startedAt |-> row.startedAt, endedAt |-> row.endedAt]

\* CallRepository.findActiveCallByPhoneNumber: the rows it can return.
ActiveCallsByPhoneNumber(to) ==
    {i \in Ids : calls[i].status \in {PENDING, IN_PROGRESS} /\ calls[i].to = to}

\* Mutant of countInProgress: the rows counted are the active ones.
countInProgressOfActive ==
    Cardinality({i \in Ids : calls[i].status \in {PENDING, IN_PROGRESS}})

\* CallRepository.countInProgress.
countInProgress == Cardinality({i \in Ids : calls[i].status = IN_PROGRESS})

\* The SELECT of fetchAndLockPendingCall: the oldest PENDING row (0: none).
OldestPending ==
    IF \E i \in Ids : calls[i].status = PENDING
    THEN CHOOSE i \in Ids : /\ calls[i].status = PENDING
                            /\ \A j \in Ids : calls[j].status = PENDING => i <= j
    ELSE 0

\* Mutant of LockAffected: the UPDATE is keyed by id alone.
LockAffectedById(id) == id \in Ids

\* Mutant of LockAffected: the UPDATE also takes a row that is IN_PROGRESS.
LockAffectedAnyActive(id) == calls[id].status \in {PENDING, IN_PROGRESS}

\* Mutant of LockAffected: the UPDATE's condition tests the correlation id
\* and not the status.
LockAffectedUnlessAccepted(id) == calls[id].externalCallId = NoExt

\* The UPDATE of fetchAndLockPendingCall: WHERE id = :id AND status = PENDING.
LockAffected(id) == calls[id].status = PENDING

\* Mutant of findByExternalCallId: a callId no row carries falls back to the
\* oldest row.
findByExternalCallIdOrOldest(ext) ==
    IF \E i \in Ids : calls[i].externalCallId = ext
    THEN CHOOSE i \in Ids : calls[i].externalCallId = ext
    ELSE IF Ids # {} THEN 1 ELSE 0

\* Mutant of findByExternalCallId: a callId no row carries as its correlation
\* id is looked up as a row's own id.
findByExternalCallIdOrId(ext) ==
    IF \E i \in Ids : calls[i].externalCallId = ext
    THEN CHOOSE i \in Ids : calls[i].externalCallId = ext
    ELSE IF ext \in Ids THEN ext ELSE 0

\* CallRepository.findByExternalCallId (0: none).
findByExternalCallId(ext) ==
    IF \E i \in Ids : calls[i].externalCallId = ext
    THEN CHOOSE i \in Ids : calls[i].externalCallId = ext
    ELSE 0

\* A validated create request (validateCreateCall passed).
Requests == [to : Destinations, scriptId : ScriptIds]

\* ----------------------------------------------------------------- Init

NoHeld == [id |-> 0, attempts |-> 0]
NoSig == [callId |-> 0, status |-> COMPLETED, completedAt |-> 0, dup |-> FALSE]
NoResp == [op |-> "none", code |-> 0, info |-> "none"]

\* The keys of the limiter's map: a client address, and the key of the
\* requests that carry none.
Clients == {"10.0.0.1", "unknown"}

\* requestCounts.get(clientIp) of a client the map does not hold.
NoClientData == [count |-> 0, resetTime |-> 0, passed |-> <<>>]

Init ==
    /\ calls = <<>>
    /\ now = 0
    /\ maxConcurrentCalls \in MaxConcurrentChoices
    /\ creating = [r \in Requests |-> 0]
    /\ pc = [w \in Workers |-> "gate"]
    /\ held = [w \in Workers |-> NoHeld]
    /\ tasks = {}
    /\ queue = <<>>
    /\ lastSig = NoSig
    /\ updating = {}
    /\ resp = NoResp
    /\ proc = "running"
    /\ requestCounts = [c \in Clients |-> NoClientData]

\* ------------------------------------------------------------- the clock

Tick ==
    /\ now < MaxTime
    /\ now' = now + 1
    /\ UNCHANGED <<calls, maxConcurrentCalls, creating, pc, held, tasks, queue, lastSig>>
    /\ UNCHANGED surface

\* ------------------------------------------------------- create requests

NumCreating == LET Sum[S \in SUBSET Requests] ==
                       IF S = {} THEN 0
                       ELSE LET r == CHOOSE x \in S : TRUE
                            IN creating[r] + Sum[S \ {r}]
               IN Sum[Requests]

\* CallService.createCall up to its first await's answer: the uniqueness check.
\* A request that finds an active call throws and inserts nothing.
CreateCallCheck(r, maxCalls) ==
    /\ Len(calls) + NumCreating < maxCalls
    /\ IF ActiveCallsByPhoneNumber(r.to) # {}
       THEN UNCHANGED creating
       ELSE creating' = [creating EXCEPT ![r] = @ + 1]
    /\ UNCHANGED <<calls, now, maxConcurrentCalls, pc, held, tasks, queue, lastSig>>

\* CallService.createCall after the check: callRepository.create.
CreateCallInsert(r) ==
    /\ creating[r] > 0
    /\ creating' = [creating EXCEPT ![r] = @ - 1]
    /\ calls' = Append(calls, NewCall(r.to, r.scriptId))
    /\ UNCHANGED <<now, maxConcurrentCalls, pc, held, tasks, queue, lastSig>>

\* ------------------------------------------------------ the dispatch loop

\* Mutant of canAcquireSlot: the comparison admits at the maximum.
canAcquireSlotAtMax == countInProgress <= maxConcurrentCalls

\* Mutant of canAcquireSlot: the gate admits whatever the count.
canAcquireSlotAlways == TRUE

\* Mutant of canAcquireSlot: the count read is that of the active rows,
\* PENDING ones included.
canAcquireSlotCountingPending ==
    Cardinality({i \in Ids : calls[i].status \in {PENDING, IN_PROGRESS}})
        < maxConcurrentCalls

\* ConcurrencyManager.canAcquireSlot.
canAcquireSlot == countInProgress < maxConcurrentCalls

\* processCallQueue, the gate: not admitted -> sleep 5 s and loop.
LoopGate(w) ==
    /\ pc[w] = "gate"
    /\ pc' = [pc EXCEPT ![w] = IF canAcquireSlot THEN "select" ELSE "gate"]
    /\ UNCHANGED <<calls, now, maxConcurrentCalls, creating, held, tasks, queue, lastSig>>

\* fetchAndLockPendingCall, the SELECT: no row -> null -> sleep 2 s and loop.
LoopSelect(w) ==
    /\ pc[w] = "select"
    /\ IF OldestPending = 0
       THEN /\ pc' = [pc EXCEPT ![w] = "gate"]
            /\ UNCHANGED held
       ELSE /\ pc' = [pc EXCEPT ![w] = "lock"]
            /\ held' = [held EXCEPT ![w] = [id |-> OldestPending, attempts |-> 0]]
    /\ UNCHANGED <<calls, now, maxConcurrentCalls, creating, tasks, queue, lastSig>>

\* fetchAndLockPendingCall, the conditional UPDATE and the re-read of the row:
\* affected = 0 -> null -> sleep 2 s and loop. No other operation writes
\* attempts of a row between this UPDATE and the re-read, so the row returned
\* is the row as written here.
LoopLock(w) ==
    /\ pc[w] = "lock"
    /\ LET id == held[w].id IN
       IF LockAffected(id)
       THEN /\ calls' = [calls EXCEPT ![id] =
                            Touch([@ EXCEPT !.status = IN_PROGRESS,
                                            !.startedAt = now])]
            /\ held' = [held EXCEPT ![w] = [id |-> id, attempts |-> calls[id].attempts]]
            /\ pc' = [pc EXCEPT ![w] = "acquire"]
       ELSE /\ held' = [held EXCEPT ![w] = NoHeld]
            /\ pc' = [pc EXCEPT ![w] = "gate"]
            /\ UNCHANGED calls
    /\ UNCHANGED <<now, maxConcurrentCalls, creating, tasks, queue, lastSig>>

\* ConcurrencyManager.acquireSlot: throws when the count, which includes the
\* row just claimed, has reached the maximum.
acquireSlotThrows == countInProgress >= maxConcurrentCalls

\* Mutant of LoopCatch: the loop's body has no catch, and the rejection ends
\* processCallQueue.
LoopCatchMissing == "exited"

\* Where an error thrown inside the loop's try leaves the loop: in its catch,
\* which logs and sleeps 5 s.
LoopCatch == "backoff"

\* Mutant of LoopAfterStart: the loop awaits processCall.
LoopAfterStartAwaited == "await"

\* Where the loop is once processCall(call) is started: the promise is given
\* a catch and not awaited, so the while loop starts again at once.
LoopAfterStart == "gate"

\* processCallQueue after a claim: acquireSlot, then processCall is started
\* and not awaited. A throw of acquireSlot lands in the loop's catch before
\* processCall is started.
LoopAcquire(w) ==
    /\ pc[w] = "acquire"
    /\ IF acquireSlotThrows
       THEN /\ UNCHANGED tasks
            /\ pc' = [pc EXCEPT ![w] = LoopCatch]
       ELSE /\ tasks' = tasks \cup {[id |-> held[w].id, attempts |-> held[w].attempts,
                                     pc |-> "initiate"]}
            /\ pc' = [pc EXCEPT ![w] = LoopAfterStart]
    /\ held' = [held EXCEPT ![w] = NoHeld]
    /\ UNCHANGED <<calls, now, maxConcurrentCalls, creating, queue, lastSig>>

\* The catch's sleep(5000) is over: the while loop starts again.
LoopBackoff(w) ==
    /\ pc[w] = "backoff"
    /\ pc' = [pc EXCEPT ![w] = "gate"]
    /\ UNCHANGED <<calls, now, maxConcurrentCalls, creating, held, tasks, queue, lastSig>>

\* ------------------------------------------------ the store out of reach

\* canAcquireSlot's countInProgress rejects: the loop's catch.
LoopGateRaises(w) ==
    /\ pc[w] = "gate"
    /\ pc' = [pc EXCEPT ![w] = LoopCatch]
    /\ UNCHANGED <<calls, now, maxConcurrentCalls, creating, held, tasks, queue, lastSig>>

\* fetchAndLockPendingCall's SELECT rejects: its own catch returns null, and
\* the loop sleeps 2 s as for no pending call.
LoopSelectRaises(w) ==
    /\ pc[w] = "select"
    /\ pc' = [pc EXCEPT ![w] = "gate"]
    /\ UNCHANGED <<calls, now, maxConcurrentCalls, creating, held, tasks, queue, lastSig>>

\* fetchAndLockPendingCall's UPDATE rejects (applied = FALSE), or the UPDATE
\* is applied and the re-read rejects: its own catch returns null.
LoopLockRaises(w, applied) ==
    /\ pc[w] = "lock"
    /\ LET id == held[w].id IN
       IF applied /\ calls[id].status = PENDING
       THEN calls' = [calls EXCEPT ![id] =
                         Touch([@ EXCEPT !.status = IN_PROGRESS, !.startedAt = now])]
       ELSE UNCHANGED calls
    /\ held' = [held EXCEPT ![w] = NoHeld]
    /\ pc' = [pc EXCEPT ![w] = "gate"]
    /\ UNCHANGED <<now, maxConcurrentCalls, creating, tasks, queue, lastSig>>

\* acquireSlot's countInProgress rejects: the loop's catch, before
\* processCall is started.
LoopAcquireRaises(w) ==
    /\ pc[w] = "acquire"
    /\ pc' = [pc EXCEPT ![w] = LoopCatch]
    /\ held' = [held EXCEPT ![w] = NoHeld]
    /\ UNCHANGED <<calls, now, maxConcurrentCalls, creating, tasks, queue, lastSig>>

\* ------------------------------------------------- processCall (detached)

\* What axios.post can end with, other than a 202 (representatives).
DispatchErrors == {"HTTP_500", "HTTP_400"}

\* What axios.post can end with, other than a 202, in more kinds: the
\* connection refused, the connection attempt timed out by the system, the
\* request's own timeout (timeout: 30000) exceeded, a response with a 4xx or
\* 5xx status, and a 2xx response that is not 202.
ProviderFailures ==
    {"ECONNREFUSED", "ETIMEDOUT", "TIMEOUT_30S", "HTTP_500", "HTTP_503",
     "HTTP_429", "HTTP_400", "HTTP_404", "STATUS_200"}

\* error.code of what initiateCall's catch receives. axios rejects with
\* ECONNABORTED when its own timeout is exceeded; the Error thrown for an
\* unexpected status has no code.
ErrorCode(e) ==
    IF e \in {"ECONNREFUSED", "ETIMEDOUT"} THEN e
    ELSE IF e = "TIMEOUT_30S" THEN "ECONNABORTED"
    ELSE IF e \in {"HTTP_500", "HTTP_502", "HTTP_503"} THEN "ERR_BAD_RESPONSE"
    ELSE IF e \in {"HTTP_429", "HTTP_400", "HTTP_404"} THEN "ERR_BAD_REQUEST"
    ELSE "undefined"

\* error.response?.status (0: there is no response on the error; the Error
\* thrown for an unexpected status carries none).
ResponseStatus(e) ==
    IF e = "HTTP_500" THEN 500
    ELSE IF e = "HTTP_502" THEN 502
    ELSE IF e = "HTTP_503" THEN 503
    ELSE IF e = "HTTP_429" THEN 429
    ELSE IF e = "HTTP_400" THEN 400
    ELSE IF e = "HTTP_404" THEN 404
    ELSE 0

\* AICallService.isRetryableError on the error axios raised.
isRetryableError(e) ==
    \/ ErrorCode(e) = "ECONNREFUSED" \/ ErrorCode(e) = "ETIMEDOUT"
    \/ ResponseStatus(e) >= 500
    \/ ResponseStatus(e) = 429

\* error.message, kept by RetryableError / NonRetryableError.
ErrorMessage(e) ==
    IF e = "HTTP_500" THEN "Request failed with status code 500"
    ELSE IF e = "HTTP_400" THEN "Request failed with status code 400"
    ELSE IF e = "TIMEOUT_30S" THEN "timeout of 30000ms exceeded"
    ELSE IF e = "STATUS_200" THEN "Unexpected response status: 200"
    ELSE e

\* Math.pow(2, newAttempts) * 1000.
BackoffDelayMs(newAttempts) == (2 ^ newAttempts) * 1000

\* Mutants of ShouldRetry: the attempts test is off by one; the error's class
\* is not looked at.
ShouldRetryUpToMax(retryable, newAttempts) ==
    retryable /\ newAttempts <= MaxRetryAttempts
ShouldRetryAnyError(retryable, newAttempts) ==
    newAttempts < MaxRetryAttempts

\* Mutant of ShouldRetry: the test reads the attempts before this failure.
ShouldRetryCountingFromOne(retryable, newAttempts) ==
    retryable /\ newAttempts - 1 < MaxRetryAttempts

\* handleCallFailure's test: retry, or fail for good.
ShouldRetry(retryable, newAttempts) ==
    retryable /\ newAttempts < MaxRetryAttempts

\* Mutant of FailureUpdate: a failure stamps endedAt whether or not the row
\* is retried.
FailureUpdateAlwaysEnding(row, attempts, retryable, message, t) ==
    LET newAttempts == attempts + 1 IN
    IF ShouldRetry(retryable, newAttempts)
    THEN [row EXCEPT !.status = PENDING, !.attempts = newAttempts,
                     !.lastError = message, !.endedAt = t]
    ELSE [row EXCEPT !.status = FAILED, !.attempts = newAttempts,
                     !.lastError = message, !.endedAt = t]

\* Mutant of FailureUpdate: only a failure that is retried counts as an attempt.
FailureUpdateCountingRetries(row, attempts, retryable, message, t) ==
    LET newAttempts == attempts + 1 IN
    IF ShouldRetry(retryable, newAttempts)
    THEN [row EXCEPT !.status = PENDING, !.attempts = newAttempts,
                     !.lastError = message]
    ELSE [row EXCEPT !.status = FAILED, !.lastError = message, !.endedAt = t]

\* handleCallFailure's updateById. startedAt: undefined is no column of the
\* UPDATE (TypeORM drops undefined values), so startedAt keeps its value.
FailureUpdate(row, attempts, retryable, message, t) ==
    LET newAttempts == attempts + 1 IN
    IF ShouldRetry(retryable, newAttempts)
    THEN [row EXCEPT !.status = PENDING, !.attempts = newAttempts,
                     !.lastError = message]
    ELSE [row EXCEPT !.status = FAILED, !.attempts = newAttempts,
                     !.lastError = message, !.endedAt = t]

\* QueueService.enqueueCallWithDelay.
enqueueCallWithDelay(q, callId, delayMs) ==
    Append(q, [callId |-> callId, scheduledAt |-> now * 1000 + delayMs])

\* aiCallService.initiateCall answered 202 with a correlation id. The provider
\* names each dispatch it accepts differently; the id it gives the dispatch of
\* row i is written i.
DispatchAccepted(t) ==
    /\ t \in tasks
    /\ t.pc = "initiate"
    /\ tasks' = (tasks \ {t}) \cup {[t EXCEPT !.pc = "persist"]}
    /\ UNCHANGED <<calls, now, maxConcurrentCalls, creating, pc, held, queue, lastSig>>

\* Mutant of AcceptedUpdate: the accepted row is put back in line.
AcceptedUpdateRequeueing(row, externalCallId) ==
    [row EXCEPT !.externalCallId = externalCallId, !.status = PENDING]

\* Mutant of AcceptedUpdate: the accepted row is written as completed.
AcceptedUpdateCompleting(row, externalCallId) ==
    [row EXCEPT !.externalCallId = externalCallId, !.status = COMPLETED,
                !.endedAt = now]

\* The columns processCall writes after the 202: { externalCallId }.
AcceptedUpdate(row, externalCallId) ==
    [row EXCEPT !.externalCallId = externalCallId]

\* processCall after the 202: updateById(id, {externalCallId}).
PersistExternalCallId(t) ==
    /\ t \in tasks
    /\ t.pc = "persist"
    /\ calls' = [calls EXCEPT ![t.id] = Touch(AcceptedUpdate(@, t.id))]
    /\ tasks' = tasks \ {t}
    /\ UNCHANGED <<now, maxConcurrentCalls, creating, pc, held, queue, lastSig>>

\* initiateCall threw: processCall's catch runs handleCallFailure on the
\* callEntity it was started with.
DispatchFailed(t, e) ==
    /\ t \in tasks
    /\ t.pc = "initiate"
    /\ LET retryable == isRetryableError(e)
           newAttempts == t.attempts + 1
       IN /\ calls' = [calls EXCEPT ![t.id] =
                          Touch(FailureUpdate(@, t.attempts, retryable,
                                              ErrorMessage(e), now))]
          /\ queue' = IF ShouldRetry(retryable, newAttempts)
                      THEN enqueueCallWithDelay(queue, t.id, BackoffDelayMs(newAttempts))
                      ELSE queue
    /\ tasks' = tasks \ {t}
    /\ UNCHANGED <<now, maxConcurrentCalls, creating, pc, held, lastSig>>

\* The store's rejection, as handleCallFailure records it.
StoreErrorMessage == "Connection terminated unexpectedly"

\* initiateCall threw and handleCallFailure's updateById rejects: processCall
\* rejects, and the .catch the loop attached to it logs the error.
DispatchFailedStoreRaises(t) ==
    /\ t \in tasks
    /\ t.pc = "initiate"
    /\ tasks' = tasks \ {t}
    /\ UNCHANGED <<calls, now, maxConcurrentCalls, creating, pc, held, queue, lastSig>>

\* processCall's updateById(id, {externalCallId}) rejects: its catch runs
\* handleCallFailure with the store's error, which is no RetryableError; the
\* updateById there goes through (recovered) or rejects as well.
PersistRaises(t, recovered) ==
    /\ t \in tasks
    /\ t.pc = "persist"
    /\ IF recovered
       THEN calls' = [calls EXCEPT ![t.id] =
                         Touch(FailureUpdate(@, t.attempts, FALSE,
                                             StoreErrorMessage, now))]
       ELSE UNCHANGED calls
    /\ tasks' = tasks \ {t}
    /\ UNCHANGED <<now, maxConcurrentCalls, creating, pc, held, queue, lastSig>>

\* ------------------------------------------------- the completion webhook

WebhookStatuses == {"COMPLETED", "FAILED", "BUSY", "NO_ANSWER"}

\* The validated WebhookCallbackPayloads (validateWebhookPayload passed) with
\* one of the given outcomes that can arrive now: the provider reports a
\* completion no earlier than it happened.
SignalsWith(maxCalls, statuses) ==
    [callId : 1..maxCalls, status : statuses, completedAt : 0..now]

\* Mutants of WebhookUpdate: a failed outcome counts as an attempt; endedAt is
\* the time of the delivery.
WebhookUpdateCountingAttempts(row, sig) ==
    IF sig.status = "COMPLETED"
    THEN [row EXCEPT !.status = COMPLETED, !.endedAt = sig.completedAt]
    ELSE [row EXCEPT !.status = FAILED, !.endedAt = sig.completedAt,
                     !.lastError = "AI call " \o sig.status,
                     !.attempts = @ + 1]
WebhookUpdateEndedNow(row, sig) ==
    IF sig.status = "COMPLETED"
    THEN [row EXCEPT !.status = COMPLETED, !.endedAt = now]
    ELSE [row EXCEPT !.status = FAILED, !.endedAt = now,
                     !.lastError = "AI call " \o sig.status]

\* handleWebhookCallback's updateById. lastError: undefined (a COMPLETED
\* outcome) is no column of the UPDATE.
WebhookUpdate(row, sig) ==
    LET isSuccess == sig.status = "COMPLETED"
        finalStatus == IF isSuccess THEN COMPLETED ELSE FAILED
    IN IF isSuccess
       THEN [row EXCEPT !.status = finalStatus, !.endedAt = sig.completedAt]
       ELSE [row EXCEPT !.status = finalStatus, !.endedAt = sig.completedAt,
                        !.lastError = "AI call " \o sig.status]

SameSignal(sig) ==
    /\ lastSig.callId = sig.callId
    /\ lastSig.status = sig.status
    /\ lastSig.completedAt = sig.completedAt

\* CallService.handleWebhookCallback: an unknown correlation id is logged and
\* dropped; a known one is applied whatever the row's status is.
HandleWebhookCallback(sig) ==
    LET id == findByExternalCallId(sig.callId) IN
    /\ IF id = 0
       THEN UNCHANGED <<calls, lastSig>>
       ELSE /\ calls' = [calls EXCEPT ![id] = Touch(WebhookUpdate(@, sig))]
            /\ lastSig' = [callId |-> sig.callId, status |-> sig.status,
                           completedAt |-> sig.completedAt,
                           dup |-> SameSignal(sig)]
    /\ UNCHANGED <<now, maxConcurrentCalls, creating, pc, held, tasks, queue>>

\* -------------------------------------------------------- the controllers

\* Error messages are kept as their words; String.prototype.includes is the
\* search for a run of words.
includes(message, needle) ==
    \E k \in 0..(Len(message) - Len(needle)) :
        SubSeq(message, k + 1, k + Len(needle)) = needle

\* createCall's throw: `Call already active for phone number: <to> (Status: <status>)`.
ActiveCallMessage(to) ==
    LET existingCall == CHOOSE i \in ActiveCallsByPhoneNumber(to) :
                            \A j \in ActiveCallsByPhoneNumber(to) : i <= j
    IN <<"Call", "already", "active", "for", "phone", "number", to,
         "Status", calls[existingCall].status>>

\* CallController.createCall's catch.
CreateCallErrorResponse(message) ==
    IF includes(message, <<"already", "in", "progress">>)
    THEN [op |-> "createCall", code |-> 409, info |-> "Conflict"]
    ELSE [op |-> "createCall", code |-> 500, info |-> "Internal server error"]

\* POST /calls with a body validateCreateCall accepts, up to the service's
\* uniqueness check: a throw is answered by the catch.
PostCallsCheck(r, maxCalls) ==
    /\ CreateCallCheck(r, maxCalls)
    /\ resp' = IF ActiveCallsByPhoneNumber(r.to) # {}
               THEN CreateCallErrorResponse(ActiveCallMessage(r.to))
               ELSE resp
    /\ UNCHANGED <<updating, proc, requestCounts>>

\* POST /calls, the insert and the 201.
PostCallsInsert(r) ==
    /\ CreateCallInsert(r)
    /\ resp' = [op |-> "createCall", code |-> 201, info |-> r.to]
    /\ UNCHANGED <<updating, proc, requestCounts>>

\* POST /callbacks/call-status with a body validateWebhookPayload accepts:
\* the service returns for a known and for an unknown callId alike, and the
\* controller answers 200. info (history): whether a row carried the callId.
PostCallbackCallStatus(sig) ==
    /\ HandleWebhookCallback(sig)
    /\ resp' = [op |-> "webhook", code |-> 200,
                info |-> IF \E i \in Ids : calls[i].externalCallId = sig.callId
                         THEN "matched" ELSE "unknown"]
    /\ UNCHANGED <<updating, proc, requestCounts>>

\* POST /callbacks/call-status with a body validateWebhookPayload rejects.
PostCallbackInvalid ==
    /\ resp' = [op |-> "webhook", code |-> 400, info |-> "Validation error"]
    /\ UNCHANGED <<calls, now, maxConcurrentCalls, creating, pc, held, tasks,
                   queue, lastSig, updating, proc, requestCounts>>

\* ------------------------------------------------------ update requests

\* A key the request's payload does not carry.
Absent == "absent"

\* Bodies validateUpdateCall accepts: payload.to and payload.scriptId are
\* both optional.
UpdatePayloads == [to : {Absent, "+10000000002"}, scriptId : {Absent, "s2"}]

\* updateCall's throw.
PendingOnlyMessage == <<"Can", "only", "update", "calls", "with", "PENDING", "status">>

\* CallController.updateCall's catch.
UpdateCallErrorResponse(message) ==
    IF includes(message, <<"PENDING", "status">>)
    THEN [op |-> "updateCall", code |-> 400, info |-> "Bad request"]
    ELSE [op |-> "updateCall", code |-> 500, info |-> "Internal server error"]

\* { ...existingCall.payload, ...request.payload }
MergePayload(existing, delta) ==
    [to |-> IF delta.to = Absent THEN existing.to ELSE delta.to,
     scriptId |-> IF delta.scriptId = Absent THEN existing.scriptId ELSE delta.scriptId]

\* PATCH /calls/:id up to updateCall's findById and status test: 404 for no
\* row, 400 for a row that is not PENDING, else the write is under way with
\* the payload merged from the row as read.
UpdateCallRead(id, delta) ==
    /\ Cardinality(updating) < MaxUpdating
    /\ IF id \notin Ids
       THEN /\ resp' = [op |-> "updateCall", code |-> 404, info |-> "Not found"]
            /\ UNCHANGED updating
       ELSE IF calls[id].status # PENDING
       THEN /\ resp' = UpdateCallErrorResponse(PendingOnlyMessage)
            /\ UNCHANGED updating
       ELSE /\ updating' = updating \cup
                   {[id |-> id, payload |-> MergePayload(calls[id], delta)]}
            /\ UNCHANGED resp
    /\ UNCHANGED <<calls, now, maxConcurrentCalls, creating, pc, held, tasks,
                   queue, lastSig, proc, requestCounts>>

\* updateCall's updateById(id, {payload}) and the 200.
UpdateCallWrite(u) ==
    /\ u \in updating
    /\ calls' = [calls EXCEPT ![u.id] =
                    Touch([@ EXCEPT !.to = u.payload.to,
                                    !.scriptId = u.payload.scriptId])]
    /\ updating' = updating \ {u}
    /\ resp' = [op |-> "updateCall", code |-> 200, info |-> u.id]
    /\ UNCHANGED <<now, maxConcurrentCalls, creating, pc, held, tasks, queue,
                   lastSig, proc, requestCounts>>

\* ------------------------------------------------------- metrics and list

\* Mutant of countByStatus: total is assigned each group's count, not
\* increased by it.
countByStatusAssigningTotal ==
    LET groups == {calls[i].status : i \in Ids}
        count(st) == Cardinality({i \in Ids : calls[i].status = st})
        fill[S \in SUBSET groups] ==
            IF S = {}
            THEN [k \in CallStatus \cup {"total"} |-> 0]
            ELSE LET st == CHOOSE x \in S : TRUE
                 IN [fill[S \ {st}] EXCEPT ![st] = count(st),
                                           !["total"] = count(st)]
    IN fill[groups]

\* CallRepository.countByStatus: GROUP BY status, then the forEach that
\* fills the per-status counts and adds them up.
countByStatus ==
    LET groups == {calls[i].status : i \in Ids}
        count(st) == Cardinality({i \in Ids : calls[i].status = st})
        fill[S \in SUBSET groups] ==
            IF S = {}
            THEN [k \in CallStatus \cup {"total"} |-> 0]
            ELSE LET st == CHOOSE x \in S : TRUE
                 IN [fill[S \ {st}] EXCEPT ![st] = count(st),
                                           !["total"] = @ + count(st)]
    IN fill[groups]

\* GET /metrics.
GetMetrics ==
    /\ resp' = [op |-> "metrics", code |-> 200, info |-> countByStatus]
    /\ UNCHANGED <<calls, now, maxConcurrentCalls, creating, pc, held, tasks,
                   queue, lastSig, updating, proc, requestCounts>>

\* A query parameter: <<>> when the request has none, <<n>> for parseInt's n.
ListPages == {<<>>, <<-1>>, <<0>>, <<1>>, <<2>>}
ListLimits == {<<>>, <<1>>, <<100>>, <<101>>, <<500>>}
ListStatuses == {<<>>, <<PENDING>>}

\* JavaScript's truth of `number | undefined`.
Truthy(param) == param # <<>> /\ param[1] # 0

\* x || fallback
OrElse(param, fallback) == IF Truthy(param) THEN param[1] ELSE fallback

\* A destructuring default (`page = 1`): it applies to undefined only.
OrDefault(param, default) == IF param = <<>> THEN default ELSE param[1]

\* Math.ceil(a / b) for a >= 0, b > 0.
Ceil(a, b) == (a + b - 1) \div b

\* findWithPagination's getManyAndCount: the ids of the page (createdAt DESC,
\* skip, take) and the count of all rows the filter matches.
findWithPagination(status, page, limit) ==
    LET matching == {i \in Ids : status = <<>> \/ calls[i].status = status[1]}
        total == Cardinality(matching)
        skip == (page - 1) * limit
        offset == IF skip < 0 THEN 0 ELSE skip
        rank(i) == Cardinality({j \in matching : j > i})
    IN [calls |-> {i \in matching : rank(i) >= offset /\ rank(i) < offset + limit},
        total |-> total]

\* What the store does with skip(n) for n < 0 is not in this repository: it
\* either raises (PostgreSQL refuses a negative OFFSET) or serves the rows from
\* the first one.
SkipOutcomes(page, limit) ==
    IF (OrDefault(page, 1) - 1) * OrDefault(limit, 10) < 0
    THEN {"raises", "served"}
    ELSE {"served"}

\* Mutant of LimitRejected: no limit is turned away.
LimitRejectedNever(limit) == FALSE

\* listCalls' test of query.limit.
LimitRejected(limit) == Truthy(limit) /\ (limit[1] < 1 \/ limit[1] > 100)

\* GET /calls: CallController.listCalls. info.requested (history): the limit
\* the request carried.
ListCalls(status, page, limit) ==
    /\ \E outcome \in SkipOutcomes(page, limit) : resp' =
         IF Truthy(page) /\ page[1] < 1
         THEN [op |-> "listCalls", code |-> 400,
               info |-> [requested |-> limit, requestedPage |-> page,
                         message |-> "Page must be greater than 0"]]
         ELSE IF LimitRejected(limit)
         THEN [op |-> "listCalls", code |-> 400,
               info |-> [requested |-> limit, requestedPage |-> page,
                         message |-> "Limit must be between 1 and 100"]]
         ELSE IF outcome = "raises"
         THEN [op |-> "listCalls", code |-> 500,
               info |-> [requested |-> limit, requestedPage |-> page,
                         message |-> "Failed to list calls"]]
         ELSE LET result == findWithPagination(status, OrDefault(page, 1),
                                               OrDefault(limit, 10))
              IN [op |-> "listCalls", code |-> 200,
                  info |-> [data |-> result.calls,
                            requested |-> limit,
                            requestedPage |-> page,
                            total |-> result.total,
                            page |-> OrElse(page, 1),
                            limit |-> OrElse(limit, 10),
                            totalPages |-> Ceil(result.total, OrElse(limit, 10))]]
    /\ UNCHANGED <<calls, now, maxConcurrentCalls, creating, pc, held, tasks,
                   queue, lastSig, updating, proc, requestCounts>>

\* ------------------------------------------------------------------ Spec

\* Every operation of the engine, with at most maxCalls rows ever created,
\* the provider answering a dispatch with a 202 or one of errors, and
\* reporting one of statuses.
Engine(maxCalls, errors, statuses) ==
    \/ \E r \in Requests : CreateCallCheck(r, maxCalls) /\ UNCHANGED surface
    \/ \E r \in Requests : CreateCallInsert(r) /\ UNCHANGED surface
    \/ \E w \in Workers : LoopGate(w) /\ UNCHANGED surface
    \/ \E w \in Workers : LoopSelect(w) /\ UNCHANGED surface
    \/ \E w \in Workers : LoopLock(w) /\ UNCHANGED surface
    \/ \E w \in Workers : LoopAcquire(w) /\ UNCHANGED surface
    \/ \E w \in Workers : LoopBackoff(w) /\ UNCHANGED surface
    \/ \E t \in tasks : DispatchAccepted(t) /\ UNCHANGED surface
    \/ \E t \in tasks : PersistExternalCallId(t) /\ UNCHANGED surface
    \/ \E t \in tasks, e \in errors : DispatchFailed(t, e) /\ UNCHANGED surface
    \/ \E sig \in SignalsWith(maxCalls, statuses) :
          HandleWebhookCallback(sig) /\ UNCHANGED surface

\* The engine within one second of the clock.
Next == Engine(MaxCalls, DispatchErrors, WebhookStatuses)

Spec == Init /\ [][Next]_vars

\* The engine with the clock running.
NextTimed == Tick \/ Engine(MaxCallsTimed, DispatchErrors, WebhookStatuses)

SpecTimed == Init /\ [][NextTimed]_vars

\* The engine with room for more rows than the gate admits: the provider
\* answers 202 or 400 and reports COMPLETED.
NextCapacity == Engine(MaxCallsCapacity, {"HTTP_400"}, {"COMPLETED"})

SpecCapacity == Init /\ [][NextCapacity]_vars

\* ------------------------------------------------- the request surface

\* The dispatch loops and the processCall invocations they start.
Dispatcher(errors) ==
    \/ \E w \in Workers : LoopGate(w) /\ UNCHANGED surface
    \/ \E w \in Workers : LoopSelect(w) /\ UNCHANGED surface
    \/ \E w \in Workers : LoopLock(w) /\ UNCHANGED surface
    \/ \E w \in Workers : LoopAcquire(w) /\ UNCHANGED surface
    \/ \E w \in Workers : LoopBackoff(w) /\ UNCHANGED surface
    \/ \E t \in tasks : DispatchAccepted(t) /\ UNCHANGED surface
    \/ \E t \in tasks : PersistExternalCallId(t) /\ UNCHANGED surface
    \/ \E t \in tasks, e \in errors : DispatchFailed(t, e) /\ UNCHANGED surface

\* The controllers answering create, webhook, metrics and list requests
\* beside the dispatcher; the provider answers 202 or 400 and reports
\* COMPLETED.
NextApi ==
    \/ \E r \in Requests : PostCallsCheck(r, MaxCallsApi)
    \/ \E r \in Requests : PostCallsInsert(r)
    \/ \E sig \in SignalsWith(MaxCallsApi, {"COMPLETED"}) : PostCallbackCallStatus(sig)
    \/ PostCallbackInvalid
    \/ GetMetrics
    \/ \E st \in ListStatuses, page \in ListPages, limit \in ListLimits :
          ListCalls(st, page, limit)
    \/ Dispatcher({"HTTP_400"})

SpecApi == Init /\ [][NextApi]_vars

\* The engine and update requests.
NextUpdate ==
    \/ Engine(MaxCallsUpdate, DispatchErrors, WebhookStatuses)
    \/ \E id \in 1..MaxCallsUpdate, delta \in UpdatePayloads : UpdateCallRead(id, delta)
    \/ \E u \in updating : UpdateCallWrite(u)

SpecUpdate == Init /\ [][NextUpdate]_vars

\* The engine with a store that can reject any statement.
NextFaulty ==
    \/ Engine(MaxCallsFaulty, DispatchErrors, {"COMPLETED"})
    \/ \E w \in Workers : LoopGateRaises(w) /\ UNCHANGED surface
    \/ \E w \in Workers : LoopSelectRaises(w) /\ UNCHANGED surface
    \/ \E w \in Workers, applied \in BOOLEAN : LoopLockRaises(w, applied) /\ UNCHANGED surface
    \/ \E w \in Workers : LoopAcquireRaises(w) /\ UNCHANGED surface
    \/ \E t \in tasks : DispatchFailedStoreRaises(t) /\ UNCHANGED surface
    \/ \E t \in tasks, recovered \in BOOLEAN : PersistRaises(t, recovered) /\ UNCHANGED surface

SpecFaulty == Init /\ [][NextFaulty]_vars

\* SIGTERM or SIGINT: gracefulShutdown closes the HTTP server and arms the
\* 10 s timer. Nothing in it reaches processCallQueue.
ShutdownSignal ==
    /\ proc = "running"
    /\ proc' = "closing"
    /\ UNCHANGED <<calls, now, maxConcurrentCalls, creating, pc, held, tasks,
                   queue, lastSig, updating, resp,
                   requestCounts>>

\* server.close's callback (AppDataSource.destroy, process.exit(0)) or the
\* timer's process.exit(1).
ProcessExit ==
    /\ proc = "closing"
    /\ proc' = "exited"
    /\ UNCHANGED <<calls, now, maxConcurrentCalls, creating, pc, held, tasks,
                   queue, lastSig, updating, resp,
                   requestCounts>>

\* The engine of a process that is sent a signal; it runs until the exit.
NextShutdown ==
    \/ ShutdownSignal
    \/ ProcessExit
    \/ proc # "exited" /\ Engine(MaxCallsShutdown, {"HTTP_400"}, {"COMPLETED"})

SpecShutdown == Init /\ [][NextShutdown]_vars

\* The engine with one row and a provider that fails in every kind.
NextProvider == Engine(MaxCallsProvider, ProviderFailures, {"COMPLETED"})

SpecProvider == Init /\ [][NextProvider]_vars

\* ------------------------------------------------------ the expiry sweep

\* The cut-off times a janitor may pass as maxAge.
SweepAges == 0..(MaxTime + 1)

\* What repository.update makes of the criterion createdAt: { $lt: maxAge } is
\* not in this repository: the UPDATE is either refused by the store (the
\* criterion is no comparison it knows) or applied to the rows older than
\* maxAge.
SweepOutcomes == {"raises", "filtered"}

\* Mutant of SweepMatches: the criterion has no status.
SweepMatchesAnyStatus(row, maxAge) == row.createdAt < maxAge

\* The criterion of markExpiredCalls: status = PENDING and createdAt < maxAge.
SweepMatches(row, maxAge) == row.status = PENDING /\ row.createdAt < maxAge

\* CallRepository.markExpiredCalls: one UPDATE.
markExpiredCalls(maxAge, outcome) ==
    /\ calls' = [i \in Ids |->
                   IF outcome = "filtered" /\ SweepMatches(calls[i], maxAge)
                   THEN Touch([calls[i] EXCEPT !.status = EXPIRED, !.endedAt = now])
                   ELSE calls[i]]
    /\ UNCHANGED <<now, maxConcurrentCalls, creating, pc, held, tasks, queue, lastSig>>

\* The engine with the clock running and a janitor that calls the sweep. The
\* provider answers 202 or 500 and reports COMPLETED.
NextSweep ==
    \/ Tick
    \/ Engine(MaxCallsSweep, {"HTTP_500"}, {"COMPLETED"})
    \/ \E maxAge \in SweepAges, outcome \in SweepOutcomes :
          markExpiredCalls(maxAge, outcome) /\ UNCHANGED surface

SpecSweep == Init /\ [][NextSweep]_vars

\* One dispatcher process: only the loop of "w1" runs. The provider answers
\* 202 or 500 and reports COMPLETED.
TheLoop == "w1"

NextSingleLoop ==
    \/ \E r \in Requests : CreateCallCheck(r, MaxCallsSingleLoop) /\ UNCHANGED surface
    \/ \E r \in Requests : CreateCallInsert(r) /\ UNCHANGED surface
    \/ LoopGate(TheLoop) /\ UNCHANGED surface
    \/ LoopSelect(TheLoop) /\ UNCHANGED surface
    \/ LoopLock(TheLoop) /\ UNCHANGED surface
    \/ LoopAcquire(TheLoop) /\ UNCHANGED surface
    \/ LoopBackoff(TheLoop) /\ UNCHANGED surface
    \/ \E t \in tasks : DispatchAccepted(t) /\ UNCHANGED surface
    \/ \E t \in tasks : PersistExternalCallId(t) /\ UNCHANGED surface
    \/ \E t \in tasks : DispatchFailed(t, "HTTP_500") /\ UNCHANGED surface
    \/ \E sig \in SignalsWith(MaxCallsSingleLoop, {"COMPLETED"}) :
          HandleWebhookCallback(sig) /\ UNCHANGED surface

SpecSingleLoop == Init /\ [][NextSingleLoop]_vars

\* The steps of the one loop, of the provider answering a dispatch (and the
\* write that follows the answer), and of the provider's completion signal
\* for a dispatch that was accepted and is on record.
LoopStep ==
    \/ LoopGate(TheLoop) \/ LoopSelect(TheLoop) \/ LoopLock(TheLoop)
    \/ LoopAcquire(TheLoop) \/ LoopBackoff(TheLoop)

ProviderStep ==
    \E t \in tasks : \/ DispatchAccepted(t)
                      \/ PersistExternalCallId(t)
                      \/ DispatchFailed(t, "HTTP_500")

SignalStep ==
    \E sig \in SignalsWith(MaxCallsSingleLoop, {"COMPLETED"}) :
        /\ \E i \in Ids : /\ calls[i].externalCallId = sig.callId
                           /\ calls[i].status = IN_PROGRESS
        /\ HandleWebhookCallback(sig)

\* One dispatcher process under weak fairness of its loop, with a provider
\* that answers every dispatch and signals the end of every accepted one.
SpecLive ==
    /\ Init
    /\ [][NextSingleLoop]_vars
    /\ WF_vars(LoopStep /\ UNCHANGED surface)
    /\ WF_vars(ProviderStep /\ UNCHANGED surface)
    /\ WF_vars(SignalStep /\ UNCHANGED surface)

\* ------------------------------- the provider's one signal per dispatch

\* aiCallService.initiateCall answered 202: from now on the provider owes one
\* completion signal for this dispatch (a task at "signal"), whether or not
\* processCall has written the correlation id yet.
DispatchAcceptedOwingSignal(t) ==
    /\ t \in tasks
    /\ t.pc = "initiate"
    /\ tasks' = (tasks \ {t}) \cup {[t EXCEPT !.pc = "persist"],
                                     [t EXCEPT !.pc = "signal"]}
    /\ UNCHANGED <<calls, now, maxConcurrentCalls, creating, pc, held, queue, lastSig>>

\* The provider delivers the signal it owes, once: handleWebhookCallback on
\* { callId, status: COMPLETED, completedAt }.
DeliverOwedSignal(t) ==
    /\ t \in tasks
    /\ t.pc = "signal"
    /\ LET sig == [callId |-> t.id, status |-> "COMPLETED", completedAt |-> now]
           id == findByExternalCallId(sig.callId)
       IN IF id = 0
          THEN UNCHANGED <<calls, lastSig>>
          ELSE /\ calls' = [calls EXCEPT ![id] = Touch(WebhookUpdate(@, sig))]
               /\ lastSig' = [callId |-> sig.callId, status |-> sig.status,
                              completedAt |-> sig.completedAt,
                              dup |-> SameSignal(sig)]
    /\ tasks' = tasks \ {t}
    /\ UNCHANGED <<now, maxConcurrentCalls, creating, pc, held, queue>>

\* The provider's steps when it signals each accepted dispatch once.
ProviderOnceStep ==
    \E t \in tasks : \/ DispatchAcceptedOwingSignal(t)
                      \/ PersistExternalCallId(t)
                      \/ DispatchFailed(t, "HTTP_500")
                      \/ DeliverOwedSignal(t)

NextSignalOnce ==
    \/ \E r \in Requests : CreateCallCheck(r, MaxCallsSingleLoop) /\ UNCHANGED surface
    \/ \E r \in Requests : CreateCallInsert(r) /\ UNCHANGED surface
    \/ LoopGate(TheLoop) /\ UNCHANGED surface
    \/ LoopSelect(TheLoop) /\ UNCHANGED surface
    \/ LoopLock(TheLoop) /\ UNCHANGED surface
    \/ LoopAcquire(TheLoop) /\ UNCHANGED surface
    \/ LoopBackoff(TheLoop) /\ UNCHANGED surface
    \/ \E t \in tasks : DispatchAcceptedOwingSignal(t) /\ UNCHANGED surface
    \/ \E t \in tasks : PersistExternalCallId(t) /\ UNCHANGED surface
    \/ \E t \in tasks : DispatchFailed(t, "HTTP_500") /\ UNCHANGED surface
    \/ \E t \in tasks : DeliverOwedSignal(t) /\ UNCHANGED surface

\* One dispatcher process, fairly scheduled, and a provider that answers
\* every dispatch and delivers the one signal of every accepted dispatch.
SpecSignalOnce ==
    /\ Init
    /\ [][NextSignalOnce]_vars
    /\ WF_vars(LoopStep /\ UNCHANGED surface)
    /\ WF_vars(ProviderOnceStep /\ UNCHANGED surface)

\* ------------------------------------------ the retry queue over time

\* The clock, running long enough for a backoff delay to elapse.
QueueTick ==
    /\ now < MaxTimeQueue
    /\ now' = now + 1
    /\ UNCHANGED <<calls, maxConcurrentCalls, creating, pc, held, tasks, queue, lastSig>>
    /\ UNCHANGED surface

\* The steps of the dispatch loops.
LoopsStep ==
    \E w \in Workers :
        \/ LoopGate(w) \/ LoopSelect(w) \/ LoopLock(w) \/ LoopAcquire(w)
        \/ LoopBackoff(w)

\* The engine with a clock that passes the backoff delays, fairly scheduled.
\* The provider answers 202 or 500 and reports COMPLETED.
NextQueue == QueueTick \/ Engine(MaxCallsQueue, {"HTTP_500"}, {"COMPLETED"})

SpecQueue ==
    /\ Init
    /\ [][NextQueue]_vars
    /\ WF_vars(QueueTick)
    /\ WF_vars(LoopsStep /\ UNCHANGED surface)

\* ------------------------------------------ QueueService, on its own

\* The delays, in ms, a caller may ask for.
QueueDelays == {1000, 2000}

\* The call ids a caller may enqueue.
QueueCallIds == {1, 2}

\* dequeueCall's null, as an entry.
NoEntry == [callId |-> 0, scheduledAt |-> 0]

\* QueueService.enqueueCall: scheduledAt is the time of the call.
EnqueueCall(callId) ==
    /\ Len(queue) < MaxQueueLength
    /\ queue' = Append(queue, [callId |-> callId, scheduledAt |-> now * 1000])
    /\ resp' = [op |-> "enqueueCall", code |-> 0,
                info |-> [callId |-> callId, scheduledAt |-> now * 1000]]
    /\ UNCHANGED <<calls, now, maxConcurrentCalls, creating, pc, held, tasks,
                   lastSig, updating, proc, requestCounts>>

\* QueueService.enqueueCallWithDelay, called on its own.
EnqueueCallWithDelay(callId, delayMs) ==
    /\ Len(queue) < MaxQueueLength
    /\ queue' = enqueueCallWithDelay(queue, callId, delayMs)
    /\ resp' = [op |-> "enqueueCallWithDelay", code |-> 0,
                info |-> [callId |-> callId, scheduledAt |-> now * 1000 + delayMs]]
    /\ UNCHANGED <<calls, now, maxConcurrentCalls, creating, pc, held, tasks,
                   lastSig, updating, proc, requestCounts>>

\* Mutant of readyIndex: the head of the queue, ready or not.
readyIndexOfHead == IF Len(queue) > 0 THEN 1 ELSE 0

\* dequeueCall's findIndex(item => item.scheduledAt <= now): the first
\* position whose entry is ready (0: none, for findIndex's -1).
readyIndex ==
    LET ready == {k \in 1..Len(queue) : queue[k].scheduledAt <= now * 1000} IN
    IF ready = {} THEN 0 ELSE CHOOSE k \in ready : \A j \in ready : k <= j

\* QueueService.dequeueCall: splice(readyIndex, 1) and return the entry's
\* callId. info (history): the entry taken.
DequeueCall ==
    /\ IF readyIndex = 0
       THEN /\ UNCHANGED queue
            /\ resp' = [op |-> "dequeueCall", code |-> 0, info |-> NoEntry]
       ELSE /\ queue' = SubSeq(queue, 1, readyIndex - 1)
                           \o SubSeq(queue, readyIndex + 1, Len(queue))
            /\ resp' = [op |-> "dequeueCall", code |-> 0, info |-> queue[readyIndex]]
    /\ UNCHANGED <<calls, now, maxConcurrentCalls, creating, pc, held, tasks,
                   lastSig, updating, proc, requestCounts>>

\* A caller of the three methods, and the clock.
NextQueueService ==
    \/ QueueTick
    \/ \E callId \in QueueCallIds : EnqueueCall(callId)
    \/ \E callId \in QueueCallIds, delayMs \in QueueDelays :
          EnqueueCallWithDelay(callId, delayMs)
    \/ DequeueCall

SpecQueueService == Init /\ [][NextQueueService]_vars

\* ------------------------------------------ the rate limiter, on its own

\* The clock, running past the end of a window.
LimiterTick ==
    /\ now < MaxTimeLimiter
    /\ now' = now + 1
    /\ UNCHANGED <<calls, maxConcurrentCalls, creating, pc, held, tasks, queue, lastSig>>
    /\ UNCHANGED surface

\* req.ip of a request; "" for one that carries no address.
RequestIps == {"10.0.0.1", ""}

\* req.ip || req.connection.remoteAddress || 'unknown'.
clientIp(ip) == IF ip = "" THEN "unknown" ELSE ip

\* !clientData || now > clientData.resetTime: no window, or the window is over.
WindowOver(clientData) ==
    clientData.count = 0 \/ now * 1000 > clientData.resetTime

\* Mutant of LimitReached: one request more is let through.
LimitReachedAfter(clientData) == clientData.count > LimiterMaxRequests

\* clientData.count >= maxRequests.
LimitReached(clientData) == clientData.count >= LimiterMaxRequests

\* The middleware rateLimiter(maxRequests, windowMs) returns, on one request.
\* code 0: next() was called and the limiter answered nothing.
rateLimiter(ip) ==
    LET client == clientIp(ip)
        clientData == requestCounts[client]
    IN /\ IF WindowOver(clientData)
          THEN /\ requestCounts' = [requestCounts EXCEPT ![client] =
                      [count |-> 1, resetTime |-> now * 1000 + LimiterWindowMs,
                       passed |-> Append(clientData.passed, now * 1000)]]
               /\ resp' = [op |-> "rateLimiter", code |-> 0,
                           info |-> [clientIp |-> client, error |-> "none"]]
          ELSE IF LimitReached(clientData)
          THEN /\ UNCHANGED requestCounts
               /\ resp' = [op |-> "rateLimiter", code |-> 429,
                           info |-> [clientIp |-> client, error |-> "Too many requests"]]
          ELSE /\ requestCounts' = [requestCounts EXCEPT ![client] =
                      [clientData EXCEPT !.count = @ + 1,
                                         !.passed = Append(@, now * 1000)]]
               /\ resp' = [op |-> "rateLimiter", code |-> 0,
                           info |-> [clientIp |-> client, error |-> "none"]]
       /\ UNCHANGED <<calls, now, maxConcurrentCalls, creating, pc, held, tasks,
                      queue, lastSig, updating, proc>>

\* Requests arriving at the limiter, and the clock.
NextLimiter ==
    \/ LimiterTick
    \/ \E ip \in RequestIps : rateLimiter(ip)

SpecLimiter == Init /\ [][NextLimiter]_vars

\* ------------------------------------------ the claim race, on its own

\* The dispatcher workers that contend for one row.
RaceWorkers == {"w1", "w2", "w3"}

\* Rows as the engine leaves them in each status.
RowInStatus(to, st) ==
    IF st = PENDING THEN NewCall(to, "s1")
    ELSE IF st = IN_PROGRESS
         THEN [NewCall(to, "s1") EXCEPT !.status = IN_PROGRESS, !.startedAt = 0]
    ELSE IF st = COMPLETED
         THEN [NewCall(to, "s1") EXCEPT !.status = COMPLETED, !.startedAt = 0,
                                        !.endedAt = 0, !.externalCallId = 1]
    ELSE [NewCall(to, "s1") EXCEPT !.status = FAILED, !.startedAt = 0,
                                   !.endedAt = 0, !.attempts = 1,
                                   !.lastError = "Request failed with status code 400"]

\* Stores holding exactly one PENDING row, alone or beside one other row.
RaceStores ==
    {<<RowInStatus("+10000000001", PENDING)>>}
    \cup {<<RowInStatus("+10000000002", st), RowInStatus("+10000000001", PENDING)>> :
              st \in {IN_PROGRESS, COMPLETED, FAILED}}
    \cup {<<RowInStatus("+10000000001", PENDING), RowInStatus("+10000000002", st)>> :
              st \in {IN_PROGRESS, COMPLETED, FAILED}}

\* Every worker is about to run fetchAndLockPendingCall.
InitClaimRace ==
    /\ now = 0
    /\ calls \in RaceStores
    /\ maxConcurrentCalls \in MaxConcurrentChoices
    /\ creating = [r \in Requests |-> 0]
    /\ pc = [w \in RaceWorkers |-> "select"]
    /\ held = [w \in RaceWorkers |-> NoHeld]
    /\ tasks = {}
    /\ queue = <<>>
    /\ lastSig = NoSig
    /\ updating = {}
    /\ resp = NoResp
    /\ proc = "running"
    /\ requestCounts = [c \in Clients |-> NoClientData]

\* Each worker runs fetchAndLockPendingCall once.
NextClaimRace ==
    \/ \E w \in RaceWorkers : LoopSelect(w) /\ UNCHANGED surface
    \/ \E w \in RaceWorkers : LoopLock(w) /\ UNCHANGED surface

SpecClaimRace == InitClaimRace /\ [][NextClaimRace]_vars

\* ================================================================ claims

\* C1: in every reachable state, every destination has at most one call
\* whose status is PENDING or IN_PROGRESS.
C1_OneActiveCallPerDestination ==
    \A d \in Destinations : Cardinality(ActiveCallsByPhoneNumber(d)) <= 1

\* C2: of the workers that run fetchAndLockPendingCall concurrently against
\* one PENDING row, no two are ever returned the row, and once all have
\* returned exactly one holds it (now IN_PROGRESS) and the others hold none.
C2_ClaimRaceOneWinner ==
    LET winners == {w \in RaceWorkers : pc[w] = "acquire"} IN
    /\ \A w1, w2 \in winners : held[w1].id = held[w2].id => w1 = w2
    /\ (\A w \in RaceWorkers : pc[w] \in {"gate", "acquire"}) =>
          /\ Cardinality(winners) = 1
          /\ \A w \in winners : calls[held[w].id].status = IN_PROGRESS
          /\ \A w \in RaceWorkers \ winners : held[w] = NoHeld

\* C2's case: one worker has won the row another worker had selected too.
C2_Witness ==
    \E w1, w2 \in RaceWorkers :
        /\ pc[w1] = "acquire"
        /\ pc[w2] = "lock"
        /\ held[w2].id = held[w1].id

\* C3: once a row is COMPLETED, FAILED or EXPIRED no step changes any of
\* its fields.
C3_TerminalRowsNeverChange ==
    [][\A i \in Ids : calls[i].status \in Terminal => calls'[i] = calls[i]]_vars

\* The time, in ms, before which the retry scheduler's latest entry for a row
\* says the row is not to be redelivered (0: the row was never rescheduled).
EligibleAtMs(id) ==
    LET mine == {k \in 1..Len(queue) : queue[k].callId = id} IN
    IF mine = {} THEN 0
    ELSE queue[CHOOSE k \in mine : \A j \in mine : j <= k].scheduledAt

\* C4: a row rescheduled with attempts n is not claimed before 2^n seconds
\* have passed since the reschedule: a claimed row was claimed (startedAt) no
\* earlier than the eligibility time of its latest reschedule.
C4_ClaimRespectsBackoff ==
    \A i \in Ids :
        (calls[i].status = IN_PROGRESS /\ calls[i].attempts >= 1)
            => calls[i].startedAt * 1000 >= EligibleAtMs(i)

\* C5: every row a dispatch loop has claimed is handed to processCall: a row
\* that is IN_PROGRESS and not yet accepted by the provider is held by the
\* loop that claimed it or by a processCall in flight.
C5_ClaimedRowIsDispatched ==
    \A i \in Ids :
        (calls[i].status = IN_PROGRESS /\ calls[i].externalCallId = NoExt)
            => \/ \E w \in DOMAIN pc : pc[w] = "acquire" /\ held[w].id = i
               \/ \E t \in tasks : t.id = i

\* C6 as claimed: the number of IN_PROGRESS rows never exceeds
\* MAX_CONCURRENT_CALLS, however many dispatcher instances share the store.
C6_InProgressWithinMax == countInProgress <= maxConcurrentCalls

\* C6 as amended: the number of IN_PROGRESS rows never exceeds
\* MAX_CONCURRENT_CALLS by more than the number of dispatcher instances less
\* one.
C6_InProgressWithinMaxPlusInstances ==
    countInProgress <= maxConcurrentCalls + Cardinality(Workers) - 1

\* C6's case: every instance passed the gate on the last free slot and each
\* claimed a row.
C6_Witness ==
    /\ countInProgress = maxConcurrentCalls + Cardinality(Workers) - 1
    /\ \A w \in Workers : pc[w] \in {"acquire", "gate"}

\* C7: the second of two deliveries in a row of the same completion signal
\* (same correlation id, outcome and completedAt) leaves every record as the
\* first delivery left it: the record the service hands out and its
\* correlation id are the same before and after the second delivery.
C7_SameSignalTwiceChangesNothing ==
    [][(~lastSig.dup /\ lastSig'.dup)
         => /\ Len(calls') = Len(calls)
            /\ \A i \in Ids :
                  /\ entityToCall(calls'[i]) = entityToCall(calls[i])
                  /\ calls'[i].externalCallId = calls[i].externalCallId]_vars

\* C7's case: a signal was applied to a row and then delivered again, later.
C7_Witness ==
    /\ lastSig.dup
    /\ \E i \in Ids : /\ calls[i].externalCallId = lastSig.callId
                      /\ calls[i].status \in {COMPLETED, FAILED}
                      /\ calls[i].updatedAt > lastSig.completedAt

\* The messages of the dispatch errors isRetryableError accepts, and of those
\* it does not.
RetryableMessages == {ErrorMessage(e) : e \in {x \in DispatchErrors : isRetryableError(x)}}
NonRetryableMessages == {ErrorMessage(e) : e \in {x \in DispatchErrors : ~isRetryableError(x)}}

\* A step in which the retry scheduler handled a failed dispatch of row i.
FailedDispatchStep(i) == calls'[i].attempts = calls[i].attempts + 1

\* C8: with maxRetryAttempts = 3 the first and the second retryable failure
\* of a row's dispatch return it to PENDING and the third leaves it FAILED.
C8_ThirdRetryableFailureFails ==
    [][\A i \in Ids :
          (FailedDispatchStep(i) /\ calls'[i].lastError \in RetryableMessages)
              => /\ calls'[i].attempts \in {1, 2} => calls'[i].status = PENDING
                 /\ calls'[i].attempts = 3 => calls'[i].status = FAILED
                 /\ calls'[i].attempts <= 3]_vars

\* C8's case: a row whose dispatch failed with a retryable error three times.
C8_Witness ==
    \E i \in Ids : /\ calls[i].attempts = 3
                   /\ calls[i].lastError \in RetryableMessages
                   /\ calls[i].status = FAILED
                   /\ Len(SelectSeq(queue, LAMBDA e : e.callId = i)) = 2

\* C9: a row whose last dispatch failure was non-retryable is FAILED, whatever
\* its attempts were, and is never PENDING again.
C9_NonRetryableFailureFails ==
    \A i \in Ids :
        calls[i].lastError \in NonRetryableMessages => calls[i].status = FAILED

\* C9's case: a first dispatch (attempts = 0) that failed non-retryably.
C9_Witness ==
    \E i \in Ids : /\ calls[i].lastError \in NonRetryableMessages
                   /\ calls[i].attempts = 1
                   /\ calls[i].status = FAILED

\* C10: the row a completion signal was last applied to has the status the
\* outcome maps to (COMPLETED for COMPLETED, FAILED for FAILED, BUSY and
\* NO_ANSWER), endedAt = completedAt and, for the three failures, a
\* lastError that names the outcome.
C10_CompletionMapping ==
    lastSig.callId # 0 =>
        \E i \in Ids :
            /\ calls[i].externalCallId = lastSig.callId
            /\ calls[i].endedAt = lastSig.completedAt
            /\ lastSig.status = "COMPLETED" => calls[i].status = COMPLETED
            /\ lastSig.status = "FAILED" =>
                   calls[i].status = FAILED /\ calls[i].lastError = "AI call FAILED"
            /\ lastSig.status = "BUSY" =>
                   calls[i].status = FAILED /\ calls[i].lastError = "AI call BUSY"
            /\ lastSig.status = "NO_ANSWER" =>
                   calls[i].status = FAILED /\ calls[i].lastError = "AI call NO_ANSWER"

\* C10's case: a NO_ANSWER reported for an earlier second has been applied.
C10_Witness ==
    /\ lastSig.callId # 0
    /\ lastSig.status = "NO_ANSWER"
    /\ lastSig.completedAt < now

\* C11: a well-formed completion signal whose callId no row carries changes
\* no row, and the endpoint answers it with 200.
C11_UnknownSignalChangesNothing ==
    [][(/\ resp'.op = "webhook"
        /\ resp'.info = "unknown"
        /\ ~(resp.op = "webhook" /\ resp.info = "unknown"))
         => /\ calls' = calls
            /\ resp'.code = 200]_vars

\* C11's case: an unknown signal was answered while the table held a row
\* with another correlation id.
C11_Witness ==
    /\ resp.op = "webhook"
    /\ resp.info = "unknown"
    /\ \E i \in Ids : calls[i].externalCallId # NoExt /\ calls[i].status = IN_PROGRESS

\* C12: a create request for a destination that has a PENDING or IN_PROGRESS
\* call is answered 409 (Conflict), not 500, and inserts no row.
C12_ActiveDestinationIsConflict ==
    [][(/\ resp'.op = "createCall"
        /\ resp'.code # 201
        /\ ~(resp.op = "createCall" /\ resp.code = resp'.code))
         => /\ resp'.code = 409
            /\ calls' = calls
            /\ creating' = creating]_vars

\* C13: no step changes the payload (to, scriptId) of a row whose status is
\* not PENDING when the write is applied, an update interleaved with a claim
\* of the same row included.
C13_PayloadFixedUnlessPending ==
    [][\A i \in Ids :
         calls[i].status # PENDING
           => /\ calls'[i].to = calls[i].to
              /\ calls'[i].scriptId = calls[i].scriptId]_vars

\* C14: the destination (payload.to) of a row never changes after creation.
C14_DestinationNeverChanges ==
    [][\A i \in Ids : calls'[i].to = calls[i].to]_vars

\* A processCall invocation of row i ends in handleCallFailure.
FailedDispatchOf(i) ==
    \E t \in tasks : t.id = i /\ t.pc = "initiate" /\ tasks' = tasks \ {t}

\* C15: a row's attempts grows by exactly 1 in a step that ends a failed
\* dispatch of that row (retryable or not) and is unchanged by every other
\* step (claim, accepted dispatch, completion signal, update); it never
\* decreases and never resets.
C15_AttemptsCountsFailedDispatches ==
    [][\A i \in Ids :
         calls'[i].attempts =
             calls[i].attempts + (IF FailedDispatchOf(i) THEN 1 ELSE 0)]_vars

\* C15's case: a row failed twice, was updated, and was claimed again.
C15_Witness ==
    \E i \in Ids : /\ calls[i].attempts = 2
                    /\ calls[i].scriptId = "s2"
                    /\ calls[i].status = IN_PROGRESS

\* processCall of task t writes the row's externalCallId in this step.
PersistStepOf(t) == t.pc = "persist" /\ t \notin tasks'

\* C16: a row's externalCallId is written only while the row is IN_PROGRESS
\* and has none yet; once it has a value the value never changes and never
\* goes back to absent.
C16_ExternalCallIdSetOnceInProgress ==
    [][/\ \A i \in Ids :
            calls'[i].externalCallId # calls[i].externalCallId
              => /\ calls[i].externalCallId = NoExt
                 /\ calls[i].status = IN_PROGRESS
       /\ \A t \in tasks :
            PersistStepOf(t)
              => /\ calls[t.id].externalCallId = NoExt
                 /\ calls[t.id].status = IN_PROGRESS]_vars

\* C16's case: a row that failed once was claimed again, accepted, and its
\* correlation id written.
C16_Witness ==
    \E i \in Ids : /\ calls[i].externalCallId # NoExt
                    /\ calls[i].attempts >= 1
                    /\ calls[i].status = IN_PROGRESS

\* C17: no step ends a dispatch loop. An error at the loop's level (the gate
\* or acquireSlot raising) puts the loop in its catch's backoff sleep; the
\* end of a processCall, by an error or not, moves no loop.
C17_LoopSurvivesErrors ==
    [][\A w \in Workers :
         /\ pc'[w] # "exited"
         /\ (pc[w] = "gate" /\ pc'[w] \notin {"gate", "select"})
              => pc'[w] = "backoff"
         /\ (pc[w] = "acquire" /\ pc'[w] # "acquire" /\ tasks' = tasks)
              => pc'[w] = "backoff"
         /\ (\E t \in tasks : t \notin tasks') => pc'[w] = pc[w]]_vars

\* C17's case: a processCall ended on the store's error while a loop sits in
\* its backoff sleep after an error of its own.
C17_Witness ==
    /\ \E i \in Ids : calls[i].lastError = StoreErrorMessage
    /\ \E w \in Workers : pc[w] = "backoff"

\* C18: once the process has received SIGTERM or SIGINT, no dispatch loop
\* claims a row (no row goes from PENDING to IN_PROGRESS).
C18_NoClaimAfterShutdownSignal ==
    [][proc # "running"
         => \A i \in Ids :
              ~(calls[i].status = PENDING /\ calls'[i].status = IN_PROGRESS)]_vars

\* The per-status counts of a metrics answer, added up.
MetricsSum(m) == m[PENDING] + m[IN_PROGRESS] + m[COMPLETED] + m[FAILED] + m[EXPIRED]

\* C19: in every reachable state the metrics operation returns per-status
\* counts whose sum is the returned total, and the total is the number of
\* rows in the table; the answer GET /metrics last sent adds up as well.
C19_MetricsAddUp ==
    /\ MetricsSum(countByStatus) = countByStatus["total"]
    /\ countByStatus["total"] = Len(calls)
    /\ resp.op = "metrics" => MetricsSum(resp.info) = resp.info["total"]

\* C19's case: metrics were answered for a table with rows in two statuses.
C19_Witness ==
    /\ resp.op = "metrics"
    /\ resp.info["total"] = 2
    /\ resp.info[COMPLETED] = 1
    /\ resp.info[FAILED] = 1

C21_PageZeroRejected ==
    resp.op = "listCalls"
      => /\ resp.info.requestedPage = <<0>> => resp.code = 400
         /\ resp.code = 200 =>
              \/ resp.info.requestedPage = <<>>
              \/ resp.info.requestedPage[1] >= 1

\* C22: at the gate, the loop is admitted (canAcquireSlot returns true) exactly
\* when the number of IN_PROGRESS rows at that moment is below
\* maxConcurrentCalls, and the gate step changes no row and no setting.
C22_GateAdmitsIffBelowMax ==
    [][\A w \in Workers :
         pc[w] = "gate" =>
           /\ (ENABLED (LoopGate(w) /\ pc'[w] = "select" /\ UNCHANGED surface))
                <=> Cardinality({i \in Ids : calls[i].status = IN_PROGRESS})
                      < maxConcurrentCalls
           /\ pc'[w] = "select" =>
                /\ calls' = calls
                /\ maxConcurrentCalls' = maxConcurrentCalls
                /\ tasks' = tasks /\ queue' = queue]_vars

\* C22's case: the gate has admitted a loop while one row was IN_PROGRESS and
\* another PENDING, under a maximum of two.
C22_Witness ==
    /\ maxConcurrentCalls = 2
    /\ \E w \in Workers : pc[w] = "select"
    /\ \E i, j \in Ids : calls[i].status = IN_PROGRESS /\ calls[j].status = PENDING
    /\ \A w \in Workers : pc[w] \in {"gate", "select"}

\* A step in which a dispatch loop claimed row i.
ClaimStepOf(i) ==
    \E w \in Workers : pc[w] = "lock" /\ pc'[w] = "acquire" /\ held'[w].id = i

\* C23: every new row starts PENDING with attempts 0, and a non-terminal
\* row changes status only along the edges of the state machine: PENDING to
\* IN_PROGRESS by a claim (or to EXPIRED); IN_PROGRESS to COMPLETED or FAILED
\* by a completion signal for its correlation id, to PENDING by a retryable
\* dispatch failure that leaves attempts below the maximum, to FAILED by a
\* non-retryable or exhausting dispatch failure. No step other than a claim
\* changes the status or the end time of a PENDING row.
C23_StatusFollowsStateMachine ==
    [][/\ \A i \in Ids' \ Ids :
            calls'[i].status = PENDING /\ calls'[i].attempts = 0
       /\ \A i \in Ids :
            /\ (calls[i].status = PENDING /\ calls'[i].status # PENDING)
                 => \/ calls'[i].status = IN_PROGRESS /\ ClaimStepOf(i)
                    \/ calls'[i].status = EXPIRED
            /\ calls[i].status = PENDING
                 => calls'[i].endedAt = calls[i].endedAt
            /\ (calls[i].status = IN_PROGRESS /\ calls'[i].status # IN_PROGRESS)
                 => IF FailedDispatchOf(i)
                    THEN \/ /\ calls'[i].status = PENDING
                             /\ calls'[i].lastError \in RetryableMessages
                             /\ calls'[i].attempts < MaxRetryAttempts
                         \/ /\ calls'[i].status = FAILED
                             /\ \/ calls'[i].lastError \in NonRetryableMessages
                                \/ calls'[i].attempts >= MaxRetryAttempts
                    ELSE /\ calls'[i].status \in {COMPLETED, FAILED}
                         /\ calls[i].externalCallId # NoExt
                         /\ lastSig'.callId = calls[i].externalCallId
                         /\ (calls'[i].status = COMPLETED)
                              <=> (lastSig'.status = COMPLETED)]_vars

\* C23's case: a row that went PENDING, IN_PROGRESS, PENDING, IN_PROGRESS
\* and COMPLETED, beside a row still PENDING.
C23_Witness ==
    \E i, j \in Ids : /\ calls[i].status = COMPLETED
                       /\ calls[i].attempts >= 1
                       /\ calls[j].status = PENDING

\* The units of work that hold row i: the loops that have claimed it and
\* not yet started its processCall, and the processCalls in flight for it.
UnitsOf(i) ==
    Cardinality({w \in Workers : pc[w] = "acquire" /\ held[w].id = i})
      + Cardinality({t \in tasks : t.id = i})

\* C24: no row is dispatched by two units of work at once: a claim returns
\* row i only when no loop holds i from an earlier claim and no processCall
\* of i is in flight, so that after the claim exactly one unit holds it.
C24_NoRowDispatchedTwiceAtOnce ==
    [][\A i \in Ids :
         ClaimStepOf(i)
           => /\ UnitsOf(i) = 0
              /\ UnitsOf(i)' = 1]_vars

\* C24's case: a row whose first dispatch failed is held by the loop that
\* claimed it again, while the other loop had selected the same row and is
\* about to try its own conditional UPDATE.
C24_Witness ==
    \E i \in Ids, w, v \in Workers :
        /\ calls[i].attempts >= 1
        /\ pc[w] = "acquire" /\ held[w].id = i
        /\ pc[v] = "lock" /\ held[v].id = i

\* C25: the loop does not wait for the dispatch it starts: the step that
\* starts processCall for the claimed row leaves that dispatch in flight and
\* the loop at the top of its while, holding nothing, free to claim again.
C25_LoopDoesNotAwaitDispatch ==
    [][\A w \in Workers :
         (pc[w] = "acquire" /\ pc'[w] # "acquire" /\ tasks' # tasks)
           => /\ pc'[w] = "gate"
              /\ held'[w] = NoHeld
              /\ \E t \in tasks' \ tasks :
                     t.id = held[w].id /\ t.pc = "initiate"]_vars

\* C25's case: with one loop running, the dispatch of one row is still in
\* flight and the same loop has claimed another row.
C25_Witness ==
    \E t \in tasks :
        /\ t.pc = "initiate"
        /\ pc[TheLoop] = "acquire"
        /\ held[TheLoop].id \in Ids \ {t.id}
        /\ calls[held[TheLoop].id].status = IN_PROGRESS

\* C26: when the provider accepted a dispatch, the write that follows stores
\* the correlation id and nothing else of the row: the status stays
\* IN_PROGRESS, and attempts, lastError, endedAt, startedAt and the payload
\* are as before; the row is not terminal.
C26_AcceptedDispatchStoresIdOnly ==
    [][\A t \in tasks :
         PersistStepOf(t)
           => /\ calls'[t.id].externalCallId # NoExt
              /\ calls[t.id].status = IN_PROGRESS
              /\ calls'[t.id].status = IN_PROGRESS
              /\ calls'[t.id].attempts = calls[t.id].attempts
              /\ calls'[t.id].lastError = calls[t.id].lastError
              /\ calls'[t.id].endedAt = NoTime
              /\ calls'[t.id].startedAt = calls[t.id].startedAt
              /\ entityToCall(calls'[t.id]) = entityToCall(calls[t.id])
              /\ \A j \in Ids \ {t.id} : calls'[j] = calls[j]]_vars

\* C26's case: a row whose dispatch failed twice was accepted on the third
\* dispatch: it carries its correlation id, two attempts and the last
\* error, and is IN_PROGRESS.
C26_Witness ==
    \E i \in Ids : /\ calls[i].externalCallId # NoExt
                    /\ calls[i].attempts = 2
                    /\ calls[i].lastError \in RetryableMessages
                    /\ calls[i].status = IN_PROGRESS
                    /\ calls[i].endedAt = NoTime

\* C27: a failed dispatch is treated as retryable (the row returns to PENDING
\* while attempts stay below the maximum) for a connection failure, a
\* timeout, an HTTP 5xx and an HTTP 429, and as non-retryable (the row is
\* FAILED at once) for any other 4xx; every outcome other than a 202 is a
\* failure of one of the two classes.
C27_FailureClasses ==
    [][LET namedRetryable ==
             {ErrorMessage(e) : e \in {"ECONNREFUSED", "ETIMEDOUT", "TIMEOUT_30S",
                                        "HTTP_500", "HTTP_503", "HTTP_429"}}
           namedNonRetryable == {ErrorMessage(e) : e \in {"HTTP_400", "HTTP_404"}}
       IN \A i \in Ids :
            FailedDispatchOf(i)
              => /\ calls'[i].status \in {PENDING, FAILED}
                 /\ (calls'[i].lastError \in namedRetryable
                       /\ calls'[i].attempts < MaxRetryAttempts)
                      => calls'[i].status = PENDING
                 /\ calls'[i].lastError \in namedNonRetryable
                      => calls'[i].status = FAILED]_vars

\* C28: when a failed dispatch is rescheduled (retryable, attempts + 1 below
\* the maximum), the row is PENDING with attempts one more than before,
\* lastError the failure's message, and startedAt absent.
C28_RescheduledRowIsReset ==
    [][\A i \in Ids :
         (FailedDispatchOf(i) /\ calls[i].attempts + 1 < MaxRetryAttempts
            /\ calls'[i].lastError \in RetryableMessages)
           => /\ calls'[i].status = PENDING
              /\ calls'[i].attempts = calls[i].attempts + 1
              /\ calls'[i].startedAt = NoTime]_vars

\* C29: a claim returns the oldest of the rows that are PENDING and eligible
\* at the time of the claim: the row claimed is eligible itself, and no
\* older row is PENDING and eligible.
C29_ClaimTakesOldestEligible ==
    [][\A j \in Ids :
         ClaimStepOf(j)
           => /\ EligibleAtMs(j) <= now * 1000
              /\ \A i \in Ids :
                    (i < j /\ calls[i].status = PENDING)
                       => EligibleAtMs(i) > now * 1000]_vars

\* C30: capacity is a count read from the rows, with no counter of its own:
\* the step in which a loop passes acquireSlot changes no row and no
\* setting; a step that takes a row out of IN_PROGRESS (releaseSlot follows
\* it) changes that row only and lowers the count the gate reads by one; and
\* the gate's answer is always that of count(IN_PROGRESS) < maxConcurrent.
C30_CapacityIsLiveCount ==
    [][/\ \A w \in Workers :
            (pc[w] = "acquire" /\ pc'[w] # "acquire")
              => calls' = calls /\ maxConcurrentCalls' = maxConcurrentCalls
       /\ \A i \in Ids :
            (calls[i].status = IN_PROGRESS /\ calls'[i].status # IN_PROGRESS)
              => /\ countInProgress' = countInProgress - 1
                 /\ \A j \in Ids' \ {i} : j \in Ids /\ calls'[j] = calls[j]
                 /\ maxConcurrentCalls' = maxConcurrentCalls
       /\ canAcquireSlot'
            <=> Cardinality({i \in Ids' : calls'[i].status = IN_PROGRESS})
                  < maxConcurrentCalls']_vars

\* C30's case: one row has left IN_PROGRESS for a retry, another is
\* IN_PROGRESS, and the gate, reading a count of one under a maximum of two,
\* has admitted a loop.
C30_Witness ==
    /\ maxConcurrentCalls = 2
    /\ \E w \in Workers : pc[w] = "select"
    /\ \E i, j \in Ids : /\ calls[i].status = PENDING /\ calls[i].attempts >= 1
                         /\ calls[j].status = IN_PROGRESS
                         /\ \E t \in tasks : t.id = j

\* C31: the expiry sweep changes only rows that are PENDING and older than
\* its maxAge at the moment of its write, and makes them EXPIRED with
\* endedAt the time of the write and nothing else changed; it changes no
\* IN_PROGRESS or terminal row. A row the sweep has expired is claimed by
\* no loop (not even one that had selected it before), and a row a loop has
\* claimed is not expired: of a sweep and a claim of one row, one applies.
C31_SweepExpiresPendingOnly ==
    [][/\ (\E i \in Ids : calls[i].status # EXPIRED /\ calls'[i].status = EXPIRED)
            => \E maxAge \in SweepAges :
                 \A i \in Ids :
                    calls'[i] =
                      IF calls[i].status = PENDING /\ calls[i].createdAt < maxAge
                      THEN [calls[i] EXCEPT !.status = EXPIRED, !.endedAt = now,
                                            !.updatedAt = now]
                      ELSE calls[i]
       /\ \A i \in Ids :
            /\ calls[i].status = EXPIRED => calls'[i] = calls[i]
            /\ ClaimStepOf(i) => calls[i].status = PENDING]_vars

\* C31's case: the sweep expired a PENDING row that a loop had selected and
\* was about to claim, beside a row that is IN_PROGRESS and as old.
C31_Witness ==
    \E i, j \in Ids, w \in Workers :
        /\ calls[i].status = EXPIRED /\ calls[i].endedAt # NoTime
        /\ pc[w] = "lock" /\ held[w].id = i
        /\ calls[j].status = IN_PROGRESS /\ calls[j].createdAt = calls[i].createdAt

\* C32: with one dispatcher process (one loop) the number of IN_PROGRESS
\* rows is at most maxConcurrentCalls in every state: the loop claims only
\* after its gate found the count below the maximum, and nothing else
\* makes a row IN_PROGRESS in between.
C32_SingleLoopWithinMax ==
    /\ Cardinality({i \in Ids : calls[i].status = IN_PROGRESS}) <= maxConcurrentCalls
    /\ pc[TheLoop] \in {"select", "lock"}
         => Cardinality({i \in Ids : calls[i].status = IN_PROGRESS})
              < maxConcurrentCalls

\* C32's case: under a maximum of one, one row is IN_PROGRESS, another is
\* PENDING and waits, and the loop is back at its gate.
C32_Witness ==
    /\ maxConcurrentCalls = 1
    /\ pc[TheLoop] = "gate"
    /\ \E i, j \in Ids : /\ calls[i].status = IN_PROGRESS
                         /\ calls[j].status = PENDING
                         /\ calls[j].attempts = 0

\* C33: with a store that never fails, a provider that answers every
\* dispatch and signals the end of every accepted one, and a fairly
\* scheduled loop, every call that was created eventually has a terminal
\* status, for each maximum (1 included).
C33_EveryCallTerminates ==
    \A i \in 1..MaxCallsSingleLoop :
        (i \in Ids) ~> (i \in Ids /\ calls[i].status \in Terminal)

\* C34: when the provider has accepted a dispatch of a row and delivers its
\* one completion signal, the row eventually has a terminal status, however
\* the delivery is interleaved with the dispatcher's write of the
\* correlation id.
C34_AcceptedDispatchEndsTerminal ==
    \A i \in 1..MaxCallsSingleLoop :
        (\E t \in tasks : t.id = i /\ t.pc = "signal")
            ~> (i \in Ids /\ calls[i].status \in Terminal)

\* A step in which a loop started processCall, and with it the call of the
\* provider, for row i.
DispatchStartOf(i) ==
    \E w \in Workers : /\ pc[w] = "acquire" /\ held[w].id = i
                        /\ \E t \in tasks' \ tasks : t.id = i

\* The reschedules of row i so far: each earlier dispatch of the row that
\* ended in a retry left one entry on the retry queue.
ReschedulesOf(i) == Cardinality({k \in 1..Len(queue) : queue[k].callId = i})

\* C35: the provider is called for a row at most maxRetryAttempts times
\* over the row's life: a dispatch starts only for a row that is IN_PROGRESS
\* and not yet accepted, whose earlier dispatches all failed and were
\* rescheduled, and which is, counting this one, at its first, second or
\* third dispatch (attempts 0, 1 or 2); none starts for a terminal row.
C35_AtMostMaxDispatches ==
    [][\A i \in Ids :
         DispatchStartOf(i)
           => /\ calls[i].status = IN_PROGRESS
              /\ calls[i].externalCallId = NoExt
              /\ ReschedulesOf(i) + 1 <= MaxRetryAttempts
              /\ calls[i].attempts = ReschedulesOf(i)]_vars

\* C35's case: a row was dispatched three times, rescheduled twice, and
\* failed for good at the third failure.
C35_Witness ==
    \E i \in Ids : /\ calls[i].status = FAILED
                    /\ calls[i].attempts = MaxRetryAttempts
                    /\ ReschedulesOf(i) = MaxRetryAttempts - 1

\* C36: in every state a row has endedAt set exactly when its status is
\* terminal (COMPLETED, FAILED or EXPIRED); a PENDING or IN_PROGRESS row
\* has none.
C36_EndedAtIffTerminal ==
    \A i \in Ids : (calls[i].endedAt # NoTime) <=> (calls[i].status \in Terminal)

\* C36's case: a row that was retried, accepted and completed, with its end
\* time, beside a row the sweep expired.
C36_Witness ==
    \E i, j \in Ids : /\ calls[i].status = COMPLETED
                       /\ calls[i].attempts >= 1
                       /\ calls[i].endedAt # NoTime
                       /\ calls[j].status = EXPIRED
                       /\ calls[j].endedAt # NoTime

\* C37: a row that carries a correlation id is IN_PROGRESS, COMPLETED or
\* FAILED, never PENDING, and it is not being dispatched: no loop holds it
\* from a claim and no call of the provider is in flight for it.
C37_AcceptedRowNeverPendingAgain ==
    \A i \in Ids :
        calls[i].externalCallId # NoExt
          => /\ calls[i].status \in {IN_PROGRESS, COMPLETED, FAILED}
             /\ \A w \in Workers : ~(pc[w] = "acquire" /\ held[w].id = i)
             /\ \A t \in tasks : t.id # i

\* C37's case: a row accepted at its third dispatch has failed by its
\* completion signal, while the other row is PENDING and a loop is about to
\* select.
C37_Witness ==
    \E i, j \in Ids, w \in Workers :
        /\ calls[i].externalCallId # NoExt
        /\ calls[i].attempts = 2
        /\ calls[i].status = FAILED
        /\ calls[j].status = PENDING
        /\ pc[w] = "select"

\* C38: an entry the retry scheduler put on the retry queue is removed from
\* it once its delay has elapsed: whenever the queue holds an entry that is
\* due, eventually it holds none that is due.
C38_DueEntriesLeaveTheQueue ==
    (\E k \in 1..Len(queue) : queue[k].scheduledAt <= now * 1000)
        ~> (\A k \in 1..Len(queue) : queue[k].scheduledAt > now * 1000)

\* C39: dequeueCall returns null and leaves the queue as it is when no entry
\* is ready; otherwise it returns the first entry, in insertion order, whose
\* scheduledAt is not later than now, and removes that entry and no other.
\* An enqueue adds its entry at the end. So the length moves by +1 per
\* enqueue and -1 per successful dequeue, and no entry is returned that is
\* not yet due or that an earlier dequeue has taken.
C39_DequeueTakesFirstReady ==
    [][/\ (resp'.op = "dequeueCall" /\ now' = now)
            => LET ready == {k \in 1..Len(queue) :
                               queue[k].scheduledAt <= now * 1000}
               IN IF ready = {}
                  THEN resp'.info = NoEntry /\ queue' = queue
                  ELSE /\ resp'.info.scheduledAt <= now * 1000
                       /\ Len(queue') = Len(queue) - 1
                       /\ \E k \in ready :
                             /\ \A j \in ready : k <= j
                             /\ resp'.info = queue[k]
                             /\ \A j \in 1..Len(queue') :
                                   queue'[j] = IF j < k THEN queue[j] ELSE queue[j + 1]
       /\ (resp'.op \in {"enqueueCall", "enqueueCallWithDelay"} /\ now' = now)
            => queue' = Append(queue, resp'.info)]_vars

\* C39's case: a dequeue has passed over the entry at the head, which is
\* not due yet, and taken a later one that is.
C39_Witness ==
    /\ resp.op = "dequeueCall"
    /\ resp.info # NoEntry
    /\ Len(queue) >= 1
    /\ queue[1].scheduledAt > now * 1000
    /\ \E k \in 2..Len(queue) : queue[k].scheduledAt <= now * 1000

\* C40: on a request of one client the limiter starts a new window (count 1,
\* resetTime = now + windowMs) and passes the request when the client has no
\* window or now is after the window's resetTime; inside a window it passes
\* the request and counts it while count < maxRequests and answers 429,
\* changing nothing, otherwise. No other client's entry changes. So the
\* requests of one client let through between a window's start and its
\* resetTime number at most maxRequests.
C40_LimiterPassesAtMostMaxPerWindow ==
    [][(resp'.op = "rateLimiter" /\ now' = now)
         => LET client == resp'.info.clientIp
                before == requestCounts[client]
                after == requestCounts'[client]
                passedInWindow ==
                    {k \in 1..Len(after.passed) :
                         /\ after.passed[k] >= after.resetTime - LimiterWindowMs
                         /\ after.passed[k] <= after.resetTime}
            IN /\ \A other \in Clients \ {client} :
                     requestCounts'[other] = requestCounts[other]
               /\ resp'.code \in {0, 429}
               /\ IF before.count = 0 \/ now * 1000 > before.resetTime
                  THEN /\ resp'.code = 0
                       /\ after.count = 1
                       /\ after.resetTime = now * 1000 + LimiterWindowMs
                  ELSE /\ after.resetTime = before.resetTime
                       /\ resp'.code = 429 <=> before.count >= LimiterMaxRequests
                       /\ resp'.code = 429 => after = before
                       /\ resp'.code = 0 => after.count = before.count + 1
               /\ resp'.code = 0 => after.passed = Append(before.passed, now * 1000)
               /\ Cardinality(passedInWindow) <= LimiterMaxRequests]_vars

\* C40's case: a client that used up one window and was let through again
\* after its resetTime is refused in its second window, while another
\* client's window holds a single request.
C40_Witness ==
    /\ resp.op = "rateLimiter"
    /\ resp.code = 429
    /\ Len(requestCounts[resp.info.clientIp].passed) = 2 * LimiterMaxRequests
    /\ \E other \in Clients \ {resp.info.clientIp} : requestCounts[other].count = 1

====
